---- MODULE Spec2Model ----
(***************************************************************************)
(* Audit-log analytics: the CSV tokenizer, the timestamp normalizer and    *)
(* processLogFile of src/parser.ts, and the dashboard state machine and    *)
(* its aggregates of src/unnamed/part_000 (DashboardPage).                 *)
(*                                                                         *)
(* Strings are TLA+ strings; a character is a string of length one, read   *)
(* with Char(s, i).  An instant (a JavaScript Date) is a record            *)
(* [day, ms]: whole days since 1970-01-01 and milliseconds within the day, *)
(* because the millisecond count itself exceeds 32 bits.                   *)
(***************************************************************************)
EXTENDS Integers, Sequences, FiniteSets, TLC

VARIABLES
    line, fields,                 \* parseCsvLine: its argument and its result
    ts, date,                     \* parseTimestamp: its argument and its result
    fileContent, analysis,        \* processLogFile: its argument and its result
    analysisResult, isLoading, sheetUrl, allRuns,
    selectedCompanyCodes, selectedRequestType,   \* DashboardPage state
    pending,                      \* the getAnalysisFromSheet call in flight
    toast                         \* the last notification raised

csvVars == <<line, fields>>
tsVars == <<ts, date>>
parseVars == <<fileContent, analysis>>
dashVars == <<analysisResult, isLoading, sheetUrl, allRuns,
              selectedCompanyCodes, selectedRequestType, pending, toast>>
vars == <<line, fields, ts, date, fileContent, analysis,
          analysisResult, isLoading, sheetUrl, allRuns,
          selectedCompanyCodes, selectedRequestType, pending, toast>>

\* The value of a result that has not been computed yet.
Unset == [unset |-> TRUE]

\* JavaScript null / undefined for an optional instant.
NoDate == [absent |-> TRUE]

\* JavaScript null for an optional string.
null == "<null>"

\* JavaScript null for the optional AnalysisResult.
noResult == [none |-> TRUE]

-----------------------------------------------------------------------------
(* String primitives of the JavaScript runtime                             *)

Char(s, i) == SubSeq(s, i, i)

Min(a, b) == IF a < b THEN a ELSE b

Max(a, b) == IF a > b THEN a ELSE b

\* String.prototype.substring(start, end): clamps and swaps its arguments.
Substring(s, start, end) ==
    LET a == Max(0, Min(start, Len(s)))
        b == Max(0, Min(end, Len(s)))
    IN  SubSeq(s, Min(a, b) + 1, Max(a, b))

IsWhitespace(c) == c \in {" ", "\t", "\r", "\n"}

RECURSIVE TrimStart(_)
TrimStart(s) ==
    IF Len(s) > 0 /\ IsWhitespace(Char(s, 1))
    THEN TrimStart(SubSeq(s, 2, Len(s)))
    ELSE s

RECURSIVE TrimEnd(_)
TrimEnd(s) ==
    IF Len(s) > 0 /\ IsWhitespace(Char(s, Len(s)))
    THEN TrimEnd(SubSeq(s, 1, Len(s) - 1))
    ELSE s

\* String.prototype.trim
Trim(s) == TrimEnd(TrimStart(s))

StartsWith(s, p) == Len(p) <= Len(s) /\ SubSeq(s, 1, Len(p)) = p

EndsWith(s, p) == Len(p) <= Len(s) /\ SubSeq(s, Len(s) - Len(p) + 1, Len(s)) = p

\* String.prototype.includes
Includes(s, p) ==
    \E i \in 1..(Len(s) - Len(p) + 1) : SubSeq(s, i, i + Len(p) - 1) = p

\* The number of occurrences of the character c in s.
CountChar(s, c) == Cardinality({i \in 1..Len(s) : Char(s, i) = c})

\* The pieces of s between the positions of idxs (String.prototype.split:
\* every match is removed and the text around it is kept, empty or not).
RECURSIVE SplitAt(_, _)
SplitAt(s, idxs) ==
    IF idxs = {} THEN <<s>>
    ELSE LET i == CHOOSE k \in idxs : \A j \in idxs : k <= j
         IN  <<SubSeq(s, 1, i - 1)>>
             \o SplitAt(SubSeq(s, i + 1, Len(s)), {j - i : j \in idxs \ {i}})

-----------------------------------------------------------------------------
(* parseCsvLine                                                            *)

\* The matches of csvSplitRegex: a comma such that the rest of the line
\* after it holds an even number of quote characters.
CsvSplitPositions(s) ==
    {i \in 1..Len(s) :
        /\ Char(s, i) = ","
        /\ CountChar(SubSeq(s, i + 1, Len(s)), "\"") % 2 = 0}

\* replace(/""/g, '"'): left to right, matches do not overlap.
RECURSIVE CollapseQuotes(_)
CollapseQuotes(s) ==
    LET matches == {i \in 1..(Len(s) - 1) : SubSeq(s, i, i + 1) = "\"\""}
    IN  IF matches = {} THEN s
        ELSE LET i == CHOOSE k \in matches : \A j \in matches : k <= j
             IN  SubSeq(s, 1, i - 1) \o "\"" \o CollapseQuotes(SubSeq(s, i + 2, Len(s)))

CleanField(field) ==
    LET cleanedField == Trim(field)
    IN  IF StartsWith(cleanedField, "\"") /\ EndsWith(cleanedField, "\"")
        THEN CollapseQuotes(Substring(cleanedField, 1, Len(cleanedField) - 1))
        ELSE cleanedField

MapClean(parts) == [i \in 1..Len(parts) |-> CleanField(parts[i])]

parseCsvLine(s) == MapClean(SplitAt(s, CsvSplitPositions(s)))

-----------------------------------------------------------------------------
(* parseTimestamp                                                          *)

Digits == {"0", "1", "2", "3", "4", "5", "6", "7", "8", "9"}

DigitValue(c) ==
    CASE c = "0" -> 0 [] c = "1" -> 1 [] c = "2" -> 2 [] c = "3" -> 3
      [] c = "4" -> 4 [] c = "5" -> 5 [] c = "6" -> 6 [] c = "7" -> 7
      [] c = "8" -> 8 [] c = "9" -> 9

\* replace(/[^0-9.]/g, ""): keeps the digits and the decimal points.
RECURSIVE KeepNumeric(_)
KeepNumeric(s) ==
    IF Len(s) = 0 THEN ""
    ELSE (IF Char(s, 1) \in Digits \cup {"."} THEN Char(s, 1) ELSE "")
         \o KeepNumeric(SubSeq(s, 2, Len(s)))

DotPositions(s) == {i \in 1..Len(s) : Char(s, i) = "."}

\* numericString.split('.')
SplitDots(s) == SplitAt(s, DotPositions(s))

\* parseInt(s, 10) is NaN when s does not start with a digit.
ParseIntIsNaN(s) == ~(Len(s) > 0 /\ Char(s, 1) \in Digits)

\* parseInt(s, 10) of a string that starts with a digit: the value of its
\* leading digits.
RECURSIVE ParseIntFrom(_, _)
ParseIntFrom(s, acc) ==
    IF Len(s) > 0 /\ Char(s, 1) \in Digits
    THEN ParseIntFrom(SubSeq(s, 2, Len(s)), 10 * acc + DigitValue(Char(s, 1)))
    ELSE acc

ParseInt(s) == ParseIntFrom(s, 0)

\* String.prototype.padEnd(n, '0')
RECURSIVE PadEndZero(_, _)
PadEndZero(s, n) == IF Len(s) >= n THEN s ELSE PadEndZero(s \o "0", n)

msPerDay == 86400000

\* ECMAScript MakeDay for the first day of month mn (0..11) of year ym:
\* the number of days from 1970-01-01 (the civil-calendar day count).
DayFromYearMonth(ym, mn) ==
    LET y == IF mn + 1 <= 2 THEN ym - 1 ELSE ym
        era == y \div 400
        yoe == y - era * 400
        mp == (mn + 10) % 12
        doy == (153 * mp + 2) \div 5
        doe == yoe * 365 + yoe \div 4 - yoe \div 100 + doy
    IN  era * 146097 + doe - 719468

\* Date.UTC(year, month, day, hour, minute, second, millisecond): years
\* 0..99 mean 1900..1999, and every out-of-range field carries over into
\* the next larger one.
DateUTC(year, month, day, hour, minute, second, millisecond) ==
    LET yr == IF 0 <= year /\ year <= 99 THEN 1900 + year ELSE year
        ym == yr + (month \div 12)
        mn == month % 12
        dayNumber == DayFromYearMonth(ym, mn) + day - 1
        time == hour * 3600000 + minute * 60000 + second * 1000 + millisecond
    IN  [day |-> dayNumber + (time \div msPerDay), ms |-> time % msPerDay]

\* isNaN(date.getTime()): TimeClip gives NaN beyond 8.64e15 ms (1e8 days).
IsInvalidDate(d) == d.day > 100000000 \/ d.day < -100000000

TsMainPart(s) == SplitDots(KeepNumeric(s))[1]

TsFractionalPart(s) ==
    LET parts == SplitDots(KeepNumeric(s))
    IN  IF Len(parts) > 1 THEN parts[2] ELSE "0"

\* The strings handed to parseInt, in the order year .. millisecond.
TsComponents(s) ==
    LET mainPart == TsMainPart(s)
    IN  <<Substring(mainPart, 0, 4), Substring(mainPart, 4, 6),
          Substring(mainPart, 6, 8), Substring(mainPart, 8, 10),
          Substring(mainPart, 10, 12), Substring(mainPart, 12, 14),
          PadEndZero(Substring(TsFractionalPart(s), 0, 3), 3)>>

parseTimestamp(s) ==
    LET c == TsComponents(s)
    IN  IF Len(TsMainPart(s)) < 14 THEN NoDate
        ELSE IF \E i \in 1..7 : ParseIntIsNaN(c[i]) THEN NoDate
        ELSE LET d == DateUTC(ParseInt(c[1]), ParseInt(c[2]) - 1, ParseInt(c[3]),
                              ParseInt(c[4]), ParseInt(c[5]), ParseInt(c[6]),
                              ParseInt(c[7]))
             IN  IF IsInvalidDate(d) THEN NoDate ELSE d

\* Date.prototype.getUTCFullYear, getUTCMonth (0-based), getUTCDate, ...
UTCFields(d) ==
    LET z == d.day + 719468
        era == z \div 146097
        doe == z - era * 146097
        yoe == (doe - doe \div 1460 + doe \div 36524 - doe \div 146096) \div 365
        doy == doe - (365 * yoe + yoe \div 4 - yoe \div 100)
        mp == (5 * doy + 2) \div 153
        m == IF mp < 10 THEN mp + 3 ELSE mp - 9
    IN  [year |-> yoe + era * 400 + (IF m <= 2 THEN 1 ELSE 0),
         month |-> m - 1,
         date |-> doy - (153 * mp + 2) \div 5 + 1,
         hours |-> d.ms \div 3600000,
         minutes |-> (d.ms \div 60000) % 60,
         seconds |-> (d.ms \div 1000) % 60,
         milliseconds |-> d.ms % 1000]

\* a.getTime() - b.getTime() < 0, and the usual orders derived from it.
DateLess(a, b) == a.day < b.day \/ (a.day = b.day /\ a.ms < b.ms)

-----------------------------------------------------------------------------
(* processLogFile                                                          *)

UpperLetters == "ABCDEFGHIJKLMNOPQRSTUVWXYZ"

LowerLetters == "abcdefghijklmnopqrstuvwxyz"

UpperSet == {Char(UpperLetters, i) : i \in 1..26}

LowerSet == {Char(LowerLetters, i) : i \in 1..26}

LowerOf == [c \in UpperSet |-> Char(LowerLetters, CHOOSE i \in 1..26 : c = Char(UpperLetters, i))]

UpperOf == [c \in LowerSet |-> Char(UpperLetters, CHOOSE i \in 1..26 : c = Char(LowerLetters, i))]

IsLetter(c) == c \in UpperSet \/ c \in LowerSet

ToLowerChar(c) == IF c \in UpperSet THEN LowerOf[c] ELSE c

ToUpperChar(c) == IF c \in LowerSet THEN UpperOf[c] ELSE c

RECURSIVE ToLowerCase(_)
ToLowerCase(s) ==
    IF Len(s) = 0 THEN ""
    ELSE IF Len(s) = 1 THEN ToLowerChar(s)
    ELSE LET half == Len(s) \div 2
         IN  ToLowerCase(SubSeq(s, 1, half)) \o ToLowerCase(SubSeq(s, half + 1, Len(s)))

RECURSIVE ToUpperCase(_)
ToUpperCase(s) ==
    IF Len(s) = 0 THEN ""
    ELSE IF Len(s) = 1 THEN ToUpperChar(s)
    ELSE LET half == Len(s) \div 2
         IN  ToUpperCase(SubSeq(s, 1, half)) \o ToUpperCase(SubSeq(s, half + 1, Len(s)))

\* fileContent.split(/\r?\n/): the text between line feeds, a carriage
\* return right before a line feed being part of the separator.
SplitLines(s) ==
    LET feeds == {i \in 1..Len(s) : Char(s, i) = "\n"}
        raw == SplitAt(s, feeds)
    IN  [i \in 1..Len(raw) |->
            IF i < Len(raw) /\ EndsWith(raw[i], "\r")
            THEN SubSeq(raw[i], 1, Len(raw[i]) - 1)
            ELSE raw[i]]

\* Array.prototype.filter(line => line.trim() !== '')
RECURSIVE NonEmptyLines(_)
NonEmptyLines(ls) ==
    IF ls = <<>> THEN <<>>
    ELSE (IF Trim(Head(ls)) # "" THEN <<Head(ls)>> ELSE <<>>)
         \o NonEmptyLines(Tail(ls))

\* parseCsvLine(lines[0]).map(h => h.trim().toLowerCase())
HeaderOf(headerLine) ==
    LET cells == parseCsvLine(headerLine)
    IN  [i \in 1..Len(cells) |-> ToLowerCase(Trim(cells[i]))]

\* Array.prototype.indexOf: the 0-based index of the first match, or -1.
IndexOf(seq, x) ==
    IF \E i \in 1..Len(seq) : seq[i] = x
    THEN (CHOOSE i \in 1..Len(seq) : seq[i] = x /\ \A j \in 1..(i - 1) : seq[j] # x) - 1
    ELSE -1

ColumnIndexes(header) ==
    [docId |-> IndexOf(header, "document id"),
     docVer |-> IndexOf(header, "document version"),
     message |-> IndexOf(header, "message"),
     coCd |-> IndexOf(header, "cocd"),
     timestamp |-> IndexOf(header, "timestamp"),
     type |-> IndexOf(header, "type")]

autoApprovalMessage == "Document assessment executed with the result Approval NOT required"

secondLevelApprovalMessage == "2nd Approval is mandated as document amount is"

errorMessage == "An Error occured while determining the approvers"

startProcessingMessage == "Running the document assessment, based on outcome: proceed or end"

endProcessingMessage == "Completed execution of the Financial Approvals engine - technical success"

wbsOwnerMissingMessage == "Failed to identify WBS Element object owner for object"

costCenterOwnerMissingMessage == "Failed to identify Cost Center object owner for object"

fallbackMessagePrefix == "Using HR Hierarchy data with key"

intercompanyText == "Intercompany supplier identified with supplier ID"

nonIntercompanyText == "Non Intercompany supplier identified with supplier ID"

\* One data row folded into the insertion-ordered map groupedByTransaction,
\* kept as a sequence of [key, entries, coCd, timestamps] in insertion order.
\* The row test without its company-code half.
HasDocumentId(documentId, companyCode) == documentId # ""

\* if (documentId && companyCode)
HasKeyFields(documentId, companyCode) == documentId # "" /\ companyCode # ""

AddRow(groups, idx, row) ==
    LET f == parseCsvLine(row)
    IN  IF \/ Len(f) <= idx.docId \/ Len(f) <= idx.message \/ Len(f) <= idx.coCd
           \/ Len(f) <= idx.timestamp \/ Len(f) <= idx.type
        THEN groups
        ELSE
        LET documentId == Trim(f[idx.docId + 1])
            companyCode == Trim(f[idx.coCd + 1])
        IN  IF ~HasKeyFields(documentId, companyCode) THEN groups
            ELSE
            LET docVer == IF idx.docVer # -1
                          THEN (IF Len(f) > idx.docVer THEN Trim(f[idx.docVer + 1]) ELSE "")
                          ELSE ""
                uniqueKey == documentId \o "-" \o docVer \o "-" \o companyCode
                message == Trim(f[idx.message + 1])
                timestamp == parseTimestamp(Trim(f[idx.timestamp + 1]))
                type == Trim(f[idx.type + 1])
                withKey == IF \E i \in 1..Len(groups) : groups[i].key = uniqueKey
                           THEN groups
                           ELSE Append(groups, [key |-> uniqueKey, entries |-> <<>>,
                                                coCd |-> companyCode, timestamps |-> <<>>])
                k == CHOOSE i \in 1..Len(withKey) : withKey[i].key = uniqueKey
            IN  [withKey EXCEPT
                    ![k].entries = IF message # ""
                                   THEN Append(@, [message |-> message, type |-> type,
                                                   timestamp |-> timestamp])
                                   ELSE @,
                    ![k].timestamps = IF timestamp # NoDate THEN Append(@, timestamp) ELSE @]

RECURSIVE GroupRows(_, _, _)
GroupRows(groups, idx, dataRows) ==
    IF dataRows = <<>> THEN groups
    ELSE GroupRows(AddRow(groups, idx, Head(dataRows)), idx, Tail(dataRows))

\* Variant: the timestamp of the last row instead of the latest one.
LastDate(ds) == ds[Len(ds)]

\* Math.max over the instants of a non-empty list.
RECURSIVE MaxDate(_)
MaxDate(ds) ==
    IF Len(ds) = 1 THEN ds[1]
    ELSE LET m == MaxDate(Tail(ds))
         IN  IF DateLess(ds[1], m) THEN m ELSE ds[1]

epoch == [day |-> 0, ms |-> 0]

\* Array.prototype.sort, which is stable: an element is placed after the
\* elements the comparator puts before it and after the earlier elements
\* the comparator ties with it (before(x, y): compare(x, y) < 0).
StableSort(seq, before(_, _)) ==
    LET rank(i) == Cardinality({j \in 1..Len(seq) :
                        \/ before(seq[j], seq[i])
                        \/ (~before(seq[i], seq[j]) /\ j < i)}) + 1
    IN  [k \in 1..Len(seq) |-> seq[CHOOSE i \in 1..Len(seq) : rank(i) = k]]

RECURSIVE FilterMarker(_, _)
FilterMarker(entries, marker) ==
    IF entries = <<>> THEN <<>>
    ELSE (IF Head(entries).message = marker /\ Head(entries).timestamp # NoDate
          THEN <<Head(entries)>> ELSE <<>>)
         \o FilterMarker(Tail(entries), marker)

\* Variant: the comparator sorts the earliest entry first.
EarlierFirst(a, b) == DateLess(a.timestamp, b.timestamp)

\* The comparator (a, b) => b.timestamp - a.timestamp: latest first.
LaterFirst(a, b) == DateLess(b.timestamp, a.timestamp)

\* Variant: the entries with the marker message in the order of the export.
MarkerEntriesUnsorted(entries, marker) == FilterMarker(entries, marker)

\* The entries with the marker message and a timestamp, latest first.
MarkerEntries(entries, marker) == StableSort(FilterMarker(entries, marker), LaterFirst)

MarkerTime(entries, marker) ==
    LET sorted == MarkerEntries(entries, marker)
    IN  IF Len(sorted) > 0 THEN sorted[1].timestamp ELSE NoDate

thresholdPrefix == "threshold identified:"

valuesSuffix == "values:"

\* Whether the tail of thresholdRegex, \/(?<docType>[A-Z]{3,4})\s+values:
\* (case-insensitive), matches at the slash at position q with n letters;
\* lm is the message in lower case.
DocTypeAt(lm, q, n) ==
    /\ Char(lm, q) = "/"
    /\ q + n <= Len(lm)
    /\ \A j \in (q + 1)..(q + n) : Char(lm, j) \in LowerSet
    /\ \E w \in 1..(Len(lm) - q - n) :
          /\ \A j \in (q + n + 1)..(q + n + w) : IsWhitespace(Char(lm, j))
          /\ Substring(lm, q + n + w, q + n + w + Len(valuesSuffix)) = valuesSuffix

\* message.match(thresholdRegex)?.groups?.docType, or null: the leftmost
\* "Threshold identified:", then the nearest slash after it that matches.
ThresholdDocType(m) ==
    LET lm == ToLowerCase(m)
        starts == {p \in 1..Len(lm) :
                      Substring(lm, p - 1, p - 1 + Len(thresholdPrefix)) = thresholdPrefix}
        matches(p) == {q \in (p + Len(thresholdPrefix))..Len(lm) :
                          DocTypeAt(lm, q, 4) \/ DocTypeAt(lm, q, 3)}
        viable == {p \in starts : matches(p) # {}}
    IN  IF viable = {} THEN null
        ELSE LET p == CHOOSE x \in viable : \A y \in viable : x <= y
                 q == CHOOSE x \in matches(p) : \A y \in matches(p) : x <= y
                 n == IF DocTypeAt(lm, q, 4) THEN 4 ELSE 3
             IN  SubSeq(m, q + 1, q + n)

\* Set.prototype.add on the insertion-ordered requestTypesForRun.
SetAdd(seq, x) == IF \E i \in 1..Len(seq) : seq[i] = x THEN seq ELSE Append(seq, x)

\* Variant: each flag is assigned the outcome of the current entry.
\* The intercompany rule without its exclusion of the "Non Intercompany" text.
IntercompanyBySubstring(message) == Includes(message, intercompanyText)

\* message.includes("Intercompany ...") && !message.includes("Non Intercompany ...")
IsIntercompanyMessage(message) ==
    Includes(message, intercompanyText) /\ ~Includes(message, nonIntercompanyText)

ClassifyEntryLastWins(run, entry) ==
    LET message == entry.message
        docType == ThresholdDocType(message)
    IN  [run EXCEPT
            !.requestTypes = IF docType # null THEN SetAdd(@, ToUpperCase(docType)) ELSE @,
            !.isIntercompany = IsIntercompanyMessage(message),
            !.isAutoApproved = (message = autoApprovalMessage),
            !.isSecondLevelApproval = StartsWith(message, secondLevelApprovalMessage),
            !.isErrorTransaction = (message = errorMessage /\ entry.type = "E"),
            !.isWbsOwnerMissing = StartsWith(message, wbsOwnerMissingMessage),
            !.isCostCenterOwnerMissing = StartsWith(message, costCenterOwnerMissingMessage),
            !.isFallbackTransaction = StartsWith(message, fallbackMessagePrefix)]

\* One iteration of the classification loop.
ClassifyEntry(run, entry) ==
    LET message == entry.message
        docType == ThresholdDocType(message)
    IN  [run EXCEPT
            !.requestTypes = IF docType # null THEN SetAdd(@, ToUpperCase(docType)) ELSE @,
            !.isIntercompany = IF IsIntercompanyMessage(message) THEN TRUE ELSE @,
            !.isAutoApproved = IF message = autoApprovalMessage THEN TRUE ELSE @,
            !.isSecondLevelApproval =
                IF StartsWith(message, secondLevelApprovalMessage) THEN TRUE ELSE @,
            !.isErrorTransaction =
                IF message = errorMessage /\ entry.type = "E" THEN TRUE ELSE @,
            !.isWbsOwnerMissing =
                IF StartsWith(message, wbsOwnerMissingMessage) THEN TRUE ELSE @,
            !.isCostCenterOwnerMissing =
                IF StartsWith(message, costCenterOwnerMissingMessage) THEN TRUE ELSE @,
            !.isFallbackTransaction =
                IF StartsWith(message, fallbackMessagePrefix) THEN TRUE ELSE @]

RECURSIVE ClassifyEntries(_, _)
ClassifyEntries(run, entries) ==
    IF entries = <<>> THEN run
    ELSE ClassifyEntries(ClassifyEntry(run, Head(entries)), Tail(entries))

\* The Run of one map entry (the callback of the runs mapping).
RunOfGroup(data) ==
    LET latestTimestamp == IF Len(data.timestamps) > 0 THEN MaxDate(data.timestamps)
                           ELSE epoch
        run == [uniqueKey |-> data.key,
                companyCode |-> data.coCd,
                requestTypes |-> <<>>,
                isIntercompany |-> FALSE,
                isAutoApproved |-> FALSE,
                isSecondLevelApproval |-> FALSE,
                isErrorTransaction |-> FALSE,
                isWbsOwnerMissing |-> FALSE,
                isCostCenterOwnerMissing |-> FALSE,
                isFallbackTransaction |-> FALSE,
                transactionDate |-> latestTimestamp,
                startTime |-> MarkerTime(data.entries, startProcessingMessage),
                endTime |-> MarkerTime(data.entries, endProcessingMessage)]
    IN  ClassifyEntries(run, data.entries)

\* Variant: the messages of the CoCd and Message checks are exchanged.
MissingColumnErrorExchanged(idx) ==
    IF idx.docId = -1
    THEN "Could not find required column: 'Document ID'. Please check the column header."
    ELSE IF idx.coCd = -1
    THEN "Could not find required column: 'Message'. This column is needed for analysis."
    ELSE IF idx.message = -1
    THEN "Could not find required column: 'CoCd'. Please check the column header."
    ELSE IF idx.timestamp = -1
    THEN "Could not find required column: 'TimeStamp'. This column is needed for the monthly chart."
    ELSE IF idx.type = -1
    THEN "Could not find required column: 'Type'. This column is needed for error analysis."
    ELSE null

\* The error of the first required column the header lacks, or null.
MissingColumnError(idx) ==
    IF idx.docId = -1
    THEN "Could not find required column: 'Document ID'. Please check the column header."
    ELSE IF idx.coCd = -1
    THEN "Could not find required column: 'CoCd'. Please check the column header."
    ELSE IF idx.message = -1
    THEN "Could not find required column: 'Message'. This column is needed for analysis."
    ELSE IF idx.timestamp = -1
    THEN "Could not find required column: 'TimeStamp'. This column is needed for the monthly chart."
    ELSE IF idx.type = -1
    THEN "Could not find required column: 'Type'. This column is needed for error analysis."
    ELSE null

emptySheetError == "The sheet appears to be empty or contains only a header."

processLogFile(content) ==
    LET lines == NonEmptyLines(SplitLines(content))
    IN  IF Len(lines) < 2 THEN [error |-> emptySheetError]
        ELSE
        LET idx == ColumnIndexes(HeaderOf(lines[1]))
        IN  IF MissingColumnError(idx) # null THEN [error |-> MissingColumnError(idx)]
            ELSE LET groups == GroupRows(<<>>, idx, Tail(lines))
                 IN  [runs |-> [i \in 1..Len(groups) |-> RunOfGroup(groups[i])]]

-----------------------------------------------------------------------------
(* DashboardPage: derived values (useMemo)                                 *)

\* Array.prototype.filter
FilterSeq(seq, keep(_)) ==
    LET kept == {i \in 1..Len(seq) : keep(seq[i])}
    IN  [k \in 1..Cardinality(kept) |->
            seq[CHOOSE i \in kept : Cardinality({j \in kept : j <= i}) = k]]

\* Array.prototype.includes
SeqIncludes(seq, x) == \E i \in 1..Len(seq) : seq[i] = x

\* The derived values are functions of the component state they close
\* over: the Run collection, the selected company codes, the selected type.

FilterByCompanyCodes(runs, codes) ==
    FilterSeq(runs, LAMBDA run : run.companyCode # "" /\ run.companyCode \in codes)

FilterByRequestType(runs, type) ==
    FilterSeq(runs, LAMBDA run : SeqIncludes(run.requestTypes, type))

FinalFilteredRuns(runs, codes, type) ==
    LET byCode == IF Cardinality(codes) > 0 THEN FilterByCompanyCodes(runs, codes) ELSE runs
    IN  IF type # null THEN FilterByRequestType(byCode, type) ELSE byCode

\* obj[key] = (obj[key] || 0) + 1 on an object kept as the sequence of its
\* [key, count] properties in order of creation.
Increment(obj, key) ==
    IF \E i \in 1..Len(obj) : obj[i].key = key
    THEN [i \in 1..Len(obj) |->
             IF obj[i].key = key THEN [obj[i] EXCEPT !.count = @ + 1] ELSE obj[i]]
    ELSE Append(obj, [key |-> key, count |-> 1])

RECURSIVE DigitsLeq(_, _)
DigitsLeq(a, b) ==
    IF Len(a) = 0 THEN TRUE
    ELSE IF DigitValue(Char(a, 1)) # DigitValue(Char(b, 1))
         THEN DigitValue(Char(a, 1)) < DigitValue(Char(b, 1))
         ELSE DigitsLeq(SubSeq(a, 2, Len(a)), SubSeq(b, 2, Len(b)))

\* A property key that is an array index: the canonical decimal form of an
\* integer in 0 .. 2^32 - 2.
IsArrayIndex(key) ==
    /\ Len(key) >= 1
    /\ \A i \in 1..Len(key) : Char(key, i) \in Digits
    /\ (Len(key) = 1 \/ Char(key, 1) # "0")
    /\ (Len(key) < 10 \/ (Len(key) = 10 /\ DigitsLeq(key, "4294967294")))

\* Numeric order of two array-index keys.
IndexBefore(a, b) ==
    Len(a.key) < Len(b.key) \/ (Len(a.key) = Len(b.key) /\ a.key # b.key /\ DigitsLeq(a.key, b.key))

IsIndexProperty(prop) == IsArrayIndex(prop.key)

IsNamedProperty(prop) == ~IsArrayIndex(prop.key)

\* Object.entries: the array-index keys in ascending numeric order, then
\* the other keys in order of creation.
ObjectEntries(obj) ==
    StableSort(FilterSeq(obj, IsIndexProperty), IndexBefore)
    \o FilterSeq(obj, IsNamedProperty)

\* The comparator (a, b) => b.count - a.count: larger counts first.
MoreFirst(a, b) == b.count - a.count < 0

RECURSIVE CountCompanyCodes(_, _)
CountCompanyCodes(counts, runs) ==
    IF runs = <<>> THEN counts
    ELSE CountCompanyCodes(
            IF Head(runs).companyCode # "" THEN Increment(counts, Head(runs).companyCode)
            ELSE counts,
            Tail(runs))

CompanyCodeRunsToConsider(runs, codes, type) ==
    IF type # null THEN FilterByRequestType(runs, type) ELSE runs

\* A sequence of [key |-> companyCode, count |-> transactions].
CompanyCodeBreakdown(runs, codes, type) ==
    StableSort(ObjectEntries(CountCompanyCodes(<<>>, CompanyCodeRunsToConsider(runs, codes, type))),
               MoreFirst)

RECURSIVE IncrementAll(_, _)
IncrementAll(counts, keys) ==
    IF keys = <<>> THEN counts
    ELSE IncrementAll(Increment(counts, Head(keys)), Tail(keys))

RECURSIVE CountRequestTypes(_, _)
CountRequestTypes(counts, runs) ==
    IF runs = <<>> THEN counts
    ELSE CountRequestTypes(IncrementAll(counts, Head(runs).requestTypes), Tail(runs))

\* Variant: the request-type breakdown counts the effective filtered set.
RequestTypeRunsOwnFilter(runs, codes, type) == FinalFilteredRuns(runs, codes, type)

RequestTypeRunsToConsider(runs, codes, type) ==
    IF Cardinality(codes) > 0 THEN FilterByCompanyCodes(runs, codes) ELSE runs

\* A sequence of [key |-> type, count |-> documents].
RequestTypeBreakdown(runs, codes, type) ==
    StableSort(ObjectEntries(CountRequestTypes(<<>>, RequestTypeRunsToConsider(runs, codes, type))),
               MoreFirst)

HasBothTimes(run) == run.startTime # NoDate /\ run.endTime # NoDate

\* new Date(run.endTime).getTime() - new Date(run.startTime).getTime()
Duration(run) ==
    (run.endTime.day - run.startTime.day) * msPerDay + run.endTime.ms - run.startTime.ms

RECURSIVE SumDurations(_)
SumDurations(runs) ==
    IF runs = <<>> THEN 0 ELSE Duration(Head(runs)) + SumDurations(Tail(runs))

\* The numbers behind avgProcessingTime.  The mean is the exact quotient
\* totalDuration / count; Math.floor and Math.round are taken of the exact
\* values (the double arithmetic may put a mean ending in exactly .5 on
\* either side of the rounding).
AvgParts(filtered) ==
    LET validRuns == FilterSeq(filtered, HasBothTimes)
        count == Len(validRuns)
        totalDuration == SumDurations(validRuns)
        seconds == totalDuration \div (1000 * count)
        rest == totalDuration - seconds * 1000 * count
    IN  IF count = 0 THEN [kind |-> "N/A"]
        ELSE IF totalDuration = 0 THEN [kind |-> "0 sec"]
        ELSE [kind |-> "time", seconds |-> seconds,
              milliseconds |-> (2 * rest + count) \div (2 * count)]

AvgProcessingTime(filtered) ==
    LET parts == AvgParts(filtered)
    IN  IF parts.kind # "time" THEN parts.kind
        ELSE IF parts.seconds > 0
             THEN ToString(parts.seconds) \o " sec, " \o ToString(parts.milliseconds) \o " ms"
             ELSE ToString(parts.milliseconds) \o " ms"

\* The derived values of the current render.
finalFilteredRuns == FinalFilteredRuns(allRuns, selectedCompanyCodes, selectedRequestType)

companyCodeBreakdown == CompanyCodeBreakdown(allRuns, selectedCompanyCodes, selectedRequestType)

requestTypeBreakdown == RequestTypeBreakdown(allRuns, selectedCompanyCodes, selectedRequestType)

avgProcessingTime == AvgProcessingTime(finalFilteredRuns)

\* String.prototype.padStart(n, '0')
RECURSIVE PadStartZero(_, _)
PadStartZero(s, n) == IF Len(s) >= n THEN s ELSE PadStartZero("0" \o s, n)

\* `${date.getUTCFullYear()}-${(date.getUTCMonth() + 1).toString().padStart(2, '0')}`
MonthKey(d) ==
    ToString(UTCFields(d).year) \o "-" \o PadStartZero(ToString(UTCFields(d).month + 1), 2)

\* Variant: a Run dated with the epoch sentinel is treated as having no date.
HasRealDate(run) == run.transactionDate # NoDate /\ run.transactionDate # epoch

\* if (run.transactionDate): a Date object is truthy, whatever its instant.
HasTransactionDate(run) == run.transactionDate # NoDate

RECURSIVE CountMonths(_, _)
CountMonths(counts, runs) ==
    IF runs = <<>> THEN counts
    ELSE CountMonths(
            IF HasTransactionDate(Head(runs))
            THEN Increment(counts, MonthKey(Head(runs).transactionDate))
            ELSE counts,
            Tail(runs))

\* The collation rank of the characters of a month key.
MonthCharRank(c) == IF c = "-" THEN 0 ELSE DigitValue(c) + 1

\* a.localeCompare(b) < 0 of two month keys.
RECURSIVE MonthKeyLess(_, _)
MonthKeyLess(a, b) ==
    IF Len(b) = 0 THEN FALSE
    ELSE IF Len(a) = 0 THEN TRUE
    ELSE IF Char(a, 1) # Char(b, 1)
         THEN MonthCharRank(Char(a, 1)) < MonthCharRank(Char(b, 1))
         ELSE MonthKeyLess(SubSeq(a, 2, Len(a)), SubSeq(b, 2, Len(b)))

\* The comparator (a, b) => a.month.localeCompare(b.month): earlier months first.
EarlierMonthFirst(a, b) == MonthKeyLess(a.key, b.key)

\* A sequence of [key |-> month, count |-> transactions].
MonthlyData(filtered) ==
    IF Len(filtered) = 0 THEN <<>>
    ELSE StableSort(ObjectEntries(CountMonths(<<>>, filtered)), EarlierMonthFirst)

monthlyData == MonthlyData(finalFilteredRuns)

-----------------------------------------------------------------------------
(* DashboardPage: handlers                                                 *)

SetSheetUrl(url) ==
    /\ ~isLoading
    /\ sheetUrl' = url
    /\ UNCHANGED <<analysisResult, isLoading, allRuns, selectedCompanyCodes,
                   selectedRequestType, pending, toast>>

\* Variant: the previous Run collection is kept while the analysis runs.
HandleUrlSubmitKeepingRuns ==
    /\ ~isLoading
    /\ sheetUrl # ""
    /\ isLoading' = TRUE
    /\ analysisResult' = noResult
    /\ selectedCompanyCodes' = {}
    /\ selectedRequestType' = null
    /\ pending' = [state |-> "pending"]
    /\ UNCHANGED <<sheetUrl, toast, allRuns>>

\* handleUrlSubmit up to its await.
HandleUrlSubmit ==
    /\ ~isLoading
    /\ sheetUrl # ""
    /\ isLoading' = TRUE
    /\ analysisResult' = noResult
    /\ allRuns' = <<>>
    /\ selectedCompanyCodes' = {}
    /\ selectedRequestType' = null
    /\ pending' = [state |-> "pending"]
    /\ UNCHANGED <<sheetUrl, toast>>

\* getAnalysisFromSheet settles: with Runs, with an error, or by throwing.
Settle(outcome) ==
    /\ pending # Unset
    /\ pending.state = "pending"
    /\ pending' = outcome
    /\ UNCHANGED <<analysisResult, isLoading, sheetUrl, allRuns, selectedCompanyCodes,
                   selectedRequestType, toast>>

\* runs.map(run => ({...run, startTime: ..., endTime: ...})): new Date(d)
\* of an instant is that instant, an absent time stays absent.
RunsWithDates(runs) ==
    [i \in 1..Len(runs) |->
        [runs[i] EXCEPT
            !.startTime = IF runs[i].startTime # NoDate THEN runs[i].startTime ELSE NoDate,
            !.endTime = IF runs[i].endTime # NoDate THEN runs[i].endTime ELSE NoDate]]

\* handleUrlSubmit after its await: the try, catch and finally blocks.
HandleUrlSubmitResume ==
    /\ pending # Unset
    /\ pending.state # "pending"
    /\ IF pending.state = "rejected"
       THEN /\ toast' = "Processing Error"
            /\ UNCHANGED <<analysisResult, allRuns>>
       ELSE IF "error" \in DOMAIN pending.result
       THEN /\ toast' = "Analysis Error"
            /\ analysisResult' = noResult
            /\ UNCHANGED allRuns
       ELSE /\ analysisResult' = pending.result
            /\ allRuns' = RunsWithDates(pending.result.runs)
            /\ UNCHANGED toast
    /\ isLoading' = FALSE
    /\ pending' = Unset
    /\ UNCHANGED <<sheetUrl, selectedCompanyCodes, selectedRequestType>>

\* The breakdown table and chart are rendered, so their rows can be clicked.
DashboardShown == analysisResult # noResult

\* Variant: a click adds the code and never removes it.
AddCompanyCode(prev, companyCode) == prev \cup {companyCode}

\* The updater of setSelectedCompanyCodes: delete the code if present, add it
\* otherwise, in a copy of the previous set.
ToggleCompanyCode(prev, companyCode) ==
    IF companyCode \in prev THEN prev \ {companyCode} ELSE prev \cup {companyCode}

HandleCompanyCodeSelect(companyCode) ==
    /\ DashboardShown
    /\ selectedCompanyCodes' = ToggleCompanyCode(selectedCompanyCodes, companyCode)
    /\ UNCHANGED <<analysisResult, isLoading, sheetUrl, allRuns, selectedRequestType,
                   pending, toast>>

HandleRequestTypeSelect(type) ==
    /\ DashboardShown
    /\ selectedRequestType' = IF selectedRequestType = type THEN null ELSE type
    /\ UNCHANGED <<analysisResult, isLoading, sheetUrl, allRuns, selectedCompanyCodes,
                   pending, toast>>

HandleResetRequestType ==
    /\ DashboardShown
    /\ selectedRequestType # null
    /\ selectedRequestType' = null
    /\ UNCHANGED <<analysisResult, isLoading, sheetUrl, allRuns, selectedCompanyCodes,
                   pending, toast>>

HandleResetSelection ==
    /\ DashboardShown
    /\ Cardinality(selectedCompanyCodes) > 0 \/ selectedRequestType # null
    /\ selectedCompanyCodes' = {}
    /\ selectedRequestType' = null
    /\ UNCHANGED <<analysisResult, isLoading, sheetUrl, allRuns, pending, toast>>

-----------------------------------------------------------------------------
(* Tokenizer specification: one line in, its fields out                    *)

MaxLineLen == 4

CsvAlphabet == {"a", ",", "\"", " "}

RECURSIVE StringsOver(_, _)
StringsOver(alphabet, n) ==
    IF n = 0 THEN {""}
    ELSE LET shorter == StringsOver(alphabet, n - 1)
         IN  shorter \cup {s \o c : s \in shorter, c \in alphabet}

QuotedExample == "\"a,b\"\"c\""

CsvLines == StringsOver(CsvAlphabet, MaxLineLen) \cup {QuotedExample, "a,\"b,c\",d"}

\* split never returns an empty array, so <<>> marks "not tokenized yet".
NoFields == <<>>

IdleCsv == line = "" /\ fields = NoFields

IdleTs == ts = "" /\ date = Unset

IdleParse == fileContent = "" /\ analysis = Unset

IdleDash ==
    /\ analysisResult = noResult
    /\ isLoading = FALSE
    /\ sheetUrl = ""
    /\ allRuns = <<>>
    /\ selectedCompanyCodes = {}
    /\ selectedRequestType = null
    /\ pending = Unset
    /\ toast = null

InitCsv ==
    /\ line \in CsvLines
    /\ fields = NoFields
    /\ IdleTs
    /\ IdleParse
    /\ IdleDash

Tokenize ==
    /\ fields = NoFields
    /\ fields' = parseCsvLine(line)
    /\ UNCHANGED <<line, tsVars, parseVars, dashVars>>

NextCsv == Tokenize

SpecCsv == InitCsv /\ [][NextCsv]_vars

\* The split the claim describes: a comma splits exactly when an even
\* number of quote characters precedes it in the line.
PrecedingEvenPositions(s) ==
    {i \in 1..Len(s) :
        /\ Char(s, i) = ","
        /\ CountChar(SubSeq(s, 1, i - 1), "\"") % 2 = 0}

\* C10: a separator splits fields exactly when the number of quote
\* characters before it in the line is even, for every line (unbalanced
\* quoting included), and "a,b""c" yields the single field a,b"c.
C10_SplitOnEvenPrecedingQuotes ==
    fields # NoFields =>
        /\ fields = MapClean(SplitAt(line, PrecedingEvenPositions(line)))
        /\ (line = QuotedExample => fields = <<"a,b\"c">>)

-----------------------------------------------------------------------------
(* Timestamp specification: one field value in, an instant or null out     *)

TsYears == {"2024", "2023", "0050"}

TsMonths == {"01", "02", "12", "13", "00"}

TsDays == {"15", "29", "31", "32", "00"}

TsTimes == {"103045", "000000", "235959", "240000", "126075"}

TsFractions == {"", ".", ".123", ".5", ".12399", ".1.2"}

TsOddities ==
    {"", "abc", "2024011510304", "2024011510304.5", "2024-01-15 10:30:45.123",
     "2024.0115103045", "202401151030459", "TS 20240115T103045Z"}

TsInputs ==
    {y \o mo \o d \o t \o f :
        y \in TsYears, mo \in TsMonths, d \in TsDays, t \in TsTimes,
        f \in TsFractions} \cup TsOddities

InitTs ==
    /\ ts \in TsInputs
    /\ date = Unset
    /\ IdleCsv
    /\ IdleParse
    /\ IdleDash

Normalize ==
    /\ date = Unset
    /\ date' = parseTimestamp(ts)
    /\ UNCHANGED <<ts, csvVars, parseVars, dashVars>>

NextTs == Normalize

SpecTs == InitTs /\ [][NextTs]_vars

IsLeapYear(y) == (y % 4 = 0 /\ y % 100 # 0) \/ y % 400 = 0

DaysInMonth(y, m) ==
    IF m = 2 THEN (IF IsLeapYear(y) THEN 29 ELSE 28)
    ELSE IF m \in {4, 6, 9, 11} THEN 30 ELSE 31

\* The fields the normalizer extracts, read as numbers (month 1-based).
TsExtracted(s) ==
    LET c == TsComponents(s)
    IN  [year |-> ParseInt(c[1]), month |-> ParseInt(c[2]), date |-> ParseInt(c[3]),
         hours |-> ParseInt(c[4]), minutes |-> ParseInt(c[5]),
         seconds |-> ParseInt(c[6]), milliseconds |-> ParseInt(c[7])]

IsCalendarDateTime(f) ==
    /\ f.month \in 1..12
    /\ f.date >= 1 /\ f.date <= DaysInMonth(f.year, f.month)
    /\ f.hours \in 0..23
    /\ f.minutes \in 0..59
    /\ f.seconds \in 0..59

\* C5: the normalizer returns unparseable when fewer than 14 digits precede
\* the decimal point, when a component is not a number, and when the fields
\* are no calendar date/time (day 32, month 13); an instant it returns has
\* exactly the extracted fields as its UTC year .. millisecond.
C5_TimestampLiteralOrUnparseable ==
    date # Unset =>
        /\ (Len(TsMainPart(ts)) < 14 => date = NoDate)
        /\ ((\E i \in 1..7 : ParseIntIsNaN(TsComponents(ts)[i])) => date = NoDate)
        /\ (Len(TsMainPart(ts)) >= 14 /\ ~IsCalendarDateTime(TsExtracted(ts))
                => date = NoDate)
        /\ (date # NoDate =>
                UTCFields(date) = [TsExtracted(ts) EXCEPT !.month = @ - 1])
        /\ (ts = "20240115103045.123" =>
                date # NoDate /\ UTCFields(date) =
                    [year |-> 2024, month |-> 0, date |-> 15, hours |-> 10,
                     minutes |-> 30, seconds |-> 45, milliseconds |-> 123])

-----------------------------------------------------------------------------
(* Analysis specification: one export in, Runs or an error out             *)

MaxRows == 2

T0 == "20240229235959.5"

T1 == "20240301120000"

T2 == "2024-03-01 12:00:05"

T3 == "20240401000000"

Row(doc, ver, cc, msg, stamp, type) ==
    [doc |-> doc, ver |-> ver, cc |-> cc, msg |-> msg, ts |-> stamp, type |-> type,
     cut |-> FALSE]

\* Rows of one transaction (D1, no version, US1), one per rule of the classifier.
RuleRows ==
    {Row("D1", "", "US1", autoApprovalMessage, T1, "S"),
     Row("D1", "", "US1", secondLevelApprovalMessage \o " 5000", T1, "S"),
     Row("D1", "", "US1", errorMessage, T1, "E"),
     Row("D1", "", "US1", errorMessage, T0, "S"),
     Row("D1", "", "US1", wbsOwnerMissingMessage \o " 17", T1, "S"),
     Row("D1", "", "US1", costCenterOwnerMissingMessage \o " 17", T1, "S"),
     Row("D1", "", "US1", fallbackMessagePrefix \o " 9", T1, "S"),
     Row("D1", "", "US1", intercompanyText \o " 42", T1, "S"),
     Row("D1", "", "US1", nonIntercompanyText \o " 42", T1, "S"),
     Row("D1", "", "US1", "Threshold identified: 1000/ZNB values: 5", T1, "S"),
     Row("D1", "", "US1", "threshold IDENTIFIED: a/b /abcd  VALUES: 1", T2, "S")}

MarkerRows ==
    {Row("D1", "", "US1", startProcessingMessage, T1, "S"),
     Row("D1", "", "US1", startProcessingMessage, T2, "S"),
     Row("D1", "", "US1", startProcessingMessage, "n/a", "S"),
     Row("D1", "", "US1", endProcessingMessage, T2, "S"),
     Row("D1", "", "US1", endProcessingMessage, T0, "S"),
     Row("D1", "", "US1", "", T3, "S")}

\* Other transactions; the first two differ in document id and company code
\* and contain the '-' character.
OtherRows ==
    {Row("D1-", "", "US1", autoApprovalMessage, T1, "S"),
     Row("D1", "", "-US1", fallbackMessagePrefix \o " 9", T2, "S"),
     Row("D2", "1", "1000", wbsOwnerMissingMessage \o " 17", T2, "S")}

\* Rows the grouper skips: no document id, no company code, too few fields.
PartialRows ==
    {Row("", "", "US1", autoApprovalMessage, T1, "S"),
     Row("D1", "", " ", autoApprovalMessage, T1, "S"),
     [Row("D1", "", "US1", autoApprovalMessage, T1, "S") EXCEPT !.cut = TRUE]}

\* The first instant of 1970, in a row without a message.
T4 == "19700101000000"

EpochRows == {Row("D1", "", "US1", " ", T4, "S")}

RowPool == RuleRows \cup MarkerRows \cup OtherRows \cup PartialRows \cup EpochRows

Quoted(text) == "\"" \o text \o "\""

\* The text of a row in the column order of the export.
RowLine(withVersion, r) ==
    r.doc \o "," \o (IF withVersion THEN r.ver \o "," ELSE "") \o r.cc
    \o (IF r.cut THEN "" ELSE "," \o Quoted(r.msg) \o "," \o r.ts \o "," \o r.type)

headerWithVersion == "Document ID,Document Version,CoCd,Message,TimeStamp,Type"

headerWithoutVersion == "Document ID,CoCd,Message,TimeStamp,Type"

headerVariant == " document id ,COCD,\"MESSAGE\", Timestamp ,TYPE,Comment"

\* Headers lacking one or more of the five required columns.
DeficientHeaders ==
    {"CoCd,Message,TimeStamp,Type",
     "Document ID,Message,TimeStamp,Type",
     "Document ID,CoCd,TimeStamp,Type",
     "Document ID,CoCd,Message,Type",
     "Document ID,CoCd,Message,TimeStamp",
     "Document ID,Document Version,Message,Type",
     "DocumentID,Co Cd,Msg,Time Stamp,Typ",
     "Type"}

\* The rows that continue an export beyond its second row: a marker of each
\* kind and a row of another transaction.
LaterRows ==
    {Row("D1", "", "US1", startProcessingMessage, T1, "S"),
     Row("D1", "", "US1", endProcessingMessage, T0, "S"),
     Row("D2", "1", "1000", wbsOwnerMissingMessage \o " 17", T2, "S")}

\* The row sequences of up to n rows: any two rows of the pool, then later rows.
RECURSIVE RowSeqs(_)
RowSeqs(n) ==
    IF n = 0 THEN {<<>>}
    ELSE LET shorter == RowSeqs(n - 1)
             longest == {rs \in shorter : Len(rs) = n - 1}
         IN  shorter \cup {Append(rs, r) : rs \in longest,
                                           r \in IF n <= 2 THEN RowPool ELSE LaterRows}

RECURSIVE JoinLines(_, _, _)
JoinLines(header, withVersion, rows) ==
    IF rows = <<>> THEN header
    ELSE JoinLines(header \o "\n" \o RowLine(withVersion, Head(rows)), withVersion, Tail(rows))

\* Exports with a complete header.
RegularContents ==
    {JoinLines(headerWithVersion, TRUE, rs) : rs \in RowSeqs(MaxRows)}
    \cup {JoinLines(headerWithoutVersion, FALSE, rs) : rs \in RowSeqs(MaxRows)}

\* Windows line ends, blank lines and a header in another spelling.
VariantContents ==
    {"\r\n" \o headerVariant \o "\r\n  \r\n" \o RowLine(FALSE, r) \o "\r\n" : r \in RowPool}

DeficientContents ==
    {JoinLines(h, FALSE, rs) : h \in DeficientHeaders, rs \in RowSeqs(1)}

ShortContents == {"", "\n \n", headerWithoutVersion \o "\n", "\r\n" \o headerVariant \o "\r\n \r\n"}

Contents == RegularContents \cup VariantContents \cup DeficientContents \cup ShortContents

InitParse ==
    /\ fileContent \in Contents
    /\ analysis = Unset
    /\ IdleCsv
    /\ IdleTs
    /\ IdleDash

Process ==
    /\ analysis = Unset
    /\ analysis' = processLogFile(fileContent)
    /\ UNCHANGED <<fileContent, csvVars, tsVars, dashVars>>

NextParse == Process

SpecParse == InitParse /\ [][NextParse]_vars

-----------------------------------------------------------------------------
(* What the export says, read row by row, for the claims about the analysis *)

HasRuns(a) == a # Unset /\ "runs" \in DOMAIN a

HasError(a) == a # Unset /\ "error" \in DOMAIN a

\* What one data row says: whether the grouper accepts it, and if so its
\* (document id, document version, company code), message and instant.
RowFacts(idx, headerLine, row) ==
    LET f == parseCsvLine(row)
        cell(col) == Trim(f[col + 1])
        covers == \A col \in {idx.docId, idx.coCd, idx.message, idx.timestamp, idx.type} :
                      Len(f) > col
        accepted == covers /\ cell(idx.docId) # "" /\ cell(idx.coCd) # ""
        version == IF idx.docVer # -1 /\ Len(f) > idx.docVer THEN cell(idx.docVer) ELSE ""
    IN  IF ~accepted THEN [accepted |-> FALSE]
        ELSE [accepted |-> TRUE,
              triple |-> <<cell(idx.docId), version, cell(idx.coCd)>>,
              key |-> cell(idx.docId) \o "-" \o version \o "-" \o cell(idx.coCd),
              message |-> cell(idx.message),
              time |-> parseTimestamp(cell(idx.timestamp)),
              alone |-> headerLine \o "\n" \o row]

RequiredColumns == {"document id", "cocd", "message", "timestamp", "type"}

\* What an export says: its number of non-empty lines, the names in its
\* header, and its data rows.
InputFacts(content) ==
    LET lines == NonEmptyLines(SplitLines(content))
        header == IF Len(lines) > 0 THEN HeaderOf(lines[1]) ELSE <<>>
        cells == {header[i] : i \in 1..Len(header)}
        idx == ColumnIndexes(header)
    IN  [lineCount |-> Len(lines),
         missing |-> RequiredColumns \ cells,
         rows |-> IF Len(lines) >= 2 /\ RequiredColumns \subseteq cells
                  THEN [i \in 1..(Len(lines) - 1) |-> RowFacts(idx, lines[1], lines[i + 1])]
                  ELSE <<>>]

Accepted(rows) == {i \in 1..Len(rows) : rows[i].accepted}

Flags(run) ==
    <<run.isIntercompany, run.isAutoApproved, run.isSecondLevelApproval,
      run.isErrorTransaction, run.isWbsOwnerMissing, run.isCostCenterOwnerMissing,
      run.isFallbackTransaction>>

RunsWithKey(runs, key) == {k \in 1..Len(runs) : runs[k].uniqueKey = key}

\* C2: two accepted rows with the same (document id, version, company code)
\* and different messages give exactly one Run for that key, and each of its
\* seven flags is the OR of the flags each row gives when processed alone.
C2_OneRunWithOrOfFlags ==
    HasRuns(analysis) =>
        LET rows == InputFacts(fileContent).rows
            acc == Accepted(rows)
        IN  \A i, j \in acc :
                (i < j /\ rows[i].triple = rows[j].triple
                       /\ rows[i].message # rows[j].message) =>
                    /\ Cardinality(RunsWithKey(analysis.runs, rows[i].key)) = 1
                    /\ acc = {i, j} =>
                          LET merged == Flags(analysis.runs[1])
                              first == Flags(processLogFile(rows[i].alone).runs[1])
                              second == Flags(processLogFile(rows[j].alone).runs[1])
                          IN  \A n \in 1..7 : merged[n] = (first[n] \/ second[n])

\* Two rows of one transaction were merged and each brought its own flag.
C2_Witness ==
    /\ HasRuns(analysis)
    /\ Len(analysis.runs) = 1
    /\ Cardinality(Accepted(InputFacts(fileContent).rows)) = 2
    /\ analysis.runs[1].isAutoApproved
    /\ analysis.runs[1].isErrorTransaction
    /\ ~analysis.runs[1].isFallbackTransaction

\* C3: accepted rows share a Run exactly when their (document id, version,
\* company code) triples are equal; rows with different triples never share
\* a uniqueKey, whatever the field values (a '-' inside them included).
C3_KeyIdentifiesTriple ==
    HasRuns(analysis) =>
        LET rows == InputFacts(fileContent).rows
            acc == Accepted(rows)
        IN  /\ \A i, j \in acc : rows[i].key = rows[j].key <=> rows[i].triple = rows[j].triple
            /\ Len(analysis.runs) = Cardinality({rows[i].triple : i \in acc})

\* The header name of the column an error message speaks of.
ColumnNamedBy(err) ==
    IF Includes(err, "'Document ID'") THEN "document id"
    ELSE IF Includes(err, "'CoCd'") THEN "cocd"
    ELSE IF Includes(err, "'Message'") THEN "message"
    ELSE IF Includes(err, "'TimeStamp'") THEN "timestamp"
    ELSE IF Includes(err, "'Type'") THEN "type"
    ELSE null

\* C4: fewer than two non-empty lines, or a required header column absent,
\* gives an error string and no runs; a missing-column error names a column
\* that is missing; the document-version column may be absent without error.
C4_StructuralErrorsAbort ==
    analysis # Unset =>
        LET in == InputFacts(fileContent)
        IN  /\ in.lineCount < 2 =>
                  HasError(analysis) /\ ~HasRuns(analysis) /\ analysis.error = emptySheetError
            /\ (in.lineCount >= 2 /\ in.missing # {}) =>
                  /\ HasError(analysis) /\ ~HasRuns(analysis)
                  /\ ColumnNamedBy(analysis.error) \in in.missing
            /\ (in.lineCount >= 2 /\ in.missing = {}) =>
                  HasRuns(analysis) /\ ~HasError(analysis)

\* A header lacking two required columns was refused, naming one of them.
C4_Witness ==
    /\ HasError(analysis)
    /\ InputFacts(fileContent).lineCount >= 2
    /\ InputFacts(fileContent).missing = {"cocd", "timestamp"}
    /\ ColumnNamedBy(analysis.error) = "cocd"

\* The instants of the accepted rows of a key whose message is the marker.
MarkerTimesOf(rows, key, marker) ==
    {rows[i].time : i \in {r \in Accepted(rows) : rows[r].key = key /\ rows[r].message = marker}}
        \ {NoDate}

LatestOf(times) ==
    IF times = {} THEN NoDate
    ELSE CHOOSE d \in times : \A e \in times : ~DateLess(d, e)

\* C8: startTime is the latest parsed timestamp among the group's entries
\* whose message equals the processing-started marker, absent when there is
\* none; endTime likewise with the processing-completed marker.
C8_LatestMarkerWins ==
    HasRuns(analysis) =>
        LET rows == InputFacts(fileContent).rows
        IN  \A k \in 1..Len(analysis.runs) :
                LET run == analysis.runs[k]
                IN  /\ run.startTime =
                          LatestOf(MarkerTimesOf(rows, run.uniqueKey, startProcessingMessage))
                    /\ run.endTime =
                          LatestOf(MarkerTimesOf(rows, run.uniqueKey, endProcessingMessage))

\* Start markers at T1 and T2 > T1, the later one first in the export, and
\* the Run starts at T2.
C8_Witness ==
    /\ HasRuns(analysis)
    /\ LET rows == InputFacts(fileContent).rows
       IN  \E i, j \in Accepted(rows) :
              /\ i < j
              /\ rows[i].key = rows[j].key
              /\ rows[i].message = startProcessingMessage
              /\ rows[j].message = startProcessingMessage
              /\ rows[i].time # NoDate /\ rows[j].time # NoDate
              /\ DateLess(rows[j].time, rows[i].time)
              /\ \E k \in RunsWithKey(analysis.runs, rows[i].key) :
                    analysis.runs[k].startTime = rows[i].time

\* The messages of the entries of a key: the non-empty trimmed messages of
\* its accepted rows.
EntryMessagesOf(rows, key) ==
    {rows[i].message : i \in {r \in Accepted(rows) : rows[r].key = key}} \ {""}

MentionsIntercompany(message) ==
    \E i \in 1..Len(message) :
        SubSeq(message, i, Min(Len(message), i + Len(intercompanyText) - 1)) = intercompanyText

MentionsNonIntercompany(message) ==
    \E i \in 1..Len(message) :
        SubSeq(message, i, Min(Len(message), i + Len(nonIntercompanyText) - 1))
            = nonIntercompanyText

\* C11: a Run's isIntercompany is true if and only if at least one of its
\* entries contains "Intercompany supplier identified with supplier ID" and
\* does not contain "Non Intercompany supplier identified with supplier ID";
\* a message with the "Non Intercompany" text never sets the flag.
C11_NonIntercompanyNeverFlags ==
    HasRuns(analysis) =>
        LET rows == InputFacts(fileContent).rows
        IN  \A k \in 1..Len(analysis.runs) :
                LET run == analysis.runs[k]
                    messages == EntryMessagesOf(rows, run.uniqueKey)
                IN  run.isIntercompany <=>
                        \E m \in messages :
                            MentionsIntercompany(m) /\ ~MentionsNonIntercompany(m)

\* A Run one of whose entries has the "Non Intercompany" text and whose flag
\* is not set (the text contains the intercompany text as a substring).
C11_Witness ==
    /\ HasRuns(analysis)
    /\ Len(analysis.runs) = 1
    /\ LET messages == EntryMessagesOf(InputFacts(fileContent).rows, analysis.runs[1].uniqueKey)
       IN  /\ \E m \in messages : MentionsNonIntercompany(m)
           /\ ~analysis.runs[1].isIntercompany

RECURSIVE JoinText(_)
JoinText(ls) ==
    IF ls = <<>> THEN ""
    ELSE IF Len(ls) = 1 THEN ls[1]
    ELSE ls[1] \o "\n" \o JoinText(Tail(ls))

\* The export without its data row i (line i + 1 of its non-empty lines).
WithoutRow(ls, i) == JoinText(SubSeq(ls, 1, i) \o SubSeq(ls, i + 2, Len(ls)))

Skipped(rows) == {i \in 1..Len(rows) : ~rows[i].accepted}

\* C12 as stated: a data row that does not cover the required columns or
\* has an empty document id or company code is skipped: the result is never
\* an error because of it and equals the result without that row.
C12_SkippedRowEqualsRemoval ==
    analysis # Unset =>
        LET facts == InputFacts(fileContent)
            ls == NonEmptyLines(SplitLines(fileContent))
        IN  \A i \in Skipped(facts.rows) :
                /\ HasRuns(analysis)
                /\ analysis = processLogFile(WithoutRow(ls, i))

\* C12 amended: the result is never an error because of a skipped row; it
\* equals the result without that row whenever another data line remains,
\* and it is the empty Run sequence when every data row is skipped.
C12_SkippedRowsIgnored ==
    analysis # Unset =>
        LET facts == InputFacts(fileContent)
            ls == NonEmptyLines(SplitLines(fileContent))
        IN  /\ \A i \in Skipped(facts.rows) :
                  /\ HasRuns(analysis)
                  /\ Len(facts.rows) > 1 => analysis = processLogFile(WithoutRow(ls, i))
            /\ (facts.rows # <<>> /\ Accepted(facts.rows) = {}) => analysis = [runs |-> <<>>]

\* A skipped row next to an accepted one, whose Run is the only Run.
C12_Witness ==
    /\ HasRuns(analysis)
    /\ Len(analysis.runs) = 1
    /\ LET rows == InputFacts(fileContent).rows
       IN  Len(rows) = 2 /\ Cardinality(Skipped(rows)) = 1

\* The export with its data rows in the order p (a permutation of 1..n).
PermutedRows(ls, p) ==
    JoinText(<<ls[1]>> \o [i \in 1..(Len(ls) - 1) |-> ls[p[i] + 1]])

ElementsOf(seq) == {seq[i] : i \in 1..Len(seq)}

\* What the claim compares of a Run.
RunEssence(run) ==
    [flags |-> Flags(run), requestTypes |-> ElementsOf(run.requestTypes),
     startTime |-> run.startTime, endTime |-> run.endTime,
     transactionDate |-> run.transactionDate]

\* C13: in whatever order the data rows of the export come, every key gets
\* one Run with the same seven flags, the same set of request types (listed
\* without duplicates), the same startTime, endTime and transactionDate.
C13_RowOrderIndependent ==
    HasRuns(analysis) =>
        LET ls == NonEmptyLines(SplitLines(fileContent))
        IN  \A p \in Permutations(1..(Len(ls) - 1)) :
                LET other == processLogFile(PermutedRows(ls, p))
                IN  /\ HasRuns(other)
                    /\ Len(other.runs) = Len(analysis.runs)
                    /\ \A k \in 1..Len(analysis.runs) :
                          LET run == analysis.runs[k]
                              same == RunsWithKey(other.runs, run.uniqueKey)
                          IN  /\ Cardinality(same) = 1
                              /\ \A o \in same : RunEssence(other.runs[o]) = RunEssence(run)
                              /\ Cardinality(ElementsOf(run.requestTypes))
                                     = Len(run.requestTypes)

\* Two rows of one key that differ, the first a start marker with the
\* earlier time: the Run starts at the later time of the second row.
C13_Witness ==
    /\ HasRuns(analysis)
    /\ Len(analysis.runs) = 1
    /\ LET rows == InputFacts(fileContent).rows
       IN  /\ Len(rows) = 2 /\ Accepted(rows) = {1, 2}
           /\ rows[1].message = startProcessingMessage
           /\ rows[2].message = startProcessingMessage
           /\ rows[1].time # NoDate /\ rows[2].time # NoDate
           /\ DateLess(rows[1].time, rows[2].time)
           /\ analysis.runs[1].startTime = rows[2].time

\* The parsed timestamps of the accepted rows of a key, whatever their message.
TimesOf(rows, key) ==
    {rows[i].time : i \in {r \in Accepted(rows) : rows[r].key = key}} \ {NoDate}

\* The Run of a key none of whose rows has a message: no flag, no request
\* type, no start and no end.
Unclassified(run) ==
    /\ \A n \in 1..7 : ~Flags(run)[n]
    /\ run.requestTypes = <<>>
    /\ run.startTime = NoDate
    /\ run.endTime = NoDate

DateIsLatest(rows, run) ==
    LET times == TimesOf(rows, run.uniqueKey)
    IN  /\ times # {} => run.transactionDate = LatestOf(times)
        /\ times = {} => run.transactionDate = epoch
        /\ EntryMessagesOf(rows, run.uniqueKey) = {} => Unclassified(run)

\* C15 as stated: transactionDate is the latest parsed timestamp of the
\* accepted rows of the key, rows without a message included (they create the
\* Run and set nothing else), and it is the epoch sentinel exactly when no
\* row of the key has a parseable timestamp.
C15_EpochExactlyWhenNoTimestamp ==
    HasRuns(analysis) =>
        LET rows == InputFacts(fileContent).rows
        IN  \A k \in 1..Len(analysis.runs) :
                LET run == analysis.runs[k]
                IN  /\ DateIsLatest(rows, run)
                    /\ run.transactionDate = epoch <=> TimesOf(rows, run.uniqueKey) = {}

\* C15 amended: transactionDate is the latest parsed timestamp of the accepted
\* rows of the key, rows without a message included, and the epoch sentinel
\* when no row of the key has a parseable timestamp; every accepted row has
\* a Run, and a timestamp counts whether or not its row has a message.
C15_TransactionDateIsLatest ==
    HasRuns(analysis) =>
        LET rows == InputFacts(fileContent).rows
        IN  /\ \A k \in 1..Len(analysis.runs) : DateIsLatest(rows, analysis.runs[k])
            /\ \A i \in Accepted(rows) :
                  Cardinality(RunsWithKey(analysis.runs, rows[i].key)) = 1

\* A row without a message carries the latest timestamp of its key, after a
\* row with a message and an earlier timestamp.
C15_Witness ==
    /\ HasRuns(analysis)
    /\ Len(analysis.runs) = 1
    /\ LET rows == InputFacts(fileContent).rows
       IN  /\ Len(rows) = 2 /\ Accepted(rows) = {1, 2}
           /\ rows[1].message = "" /\ rows[2].message # ""
           /\ rows[1].time # NoDate /\ rows[2].time # NoDate
           /\ DateLess(rows[2].time, rows[1].time)
           /\ analysis.runs[1].transactionDate = rows[1].time

-----------------------------------------------------------------------------
(* Dashboard specification                                                 *)

MaxRuns == 3

Instant(day, ms) == [day |-> day, ms |-> ms]

DashRun(companyCode, requestTypes, transactionDate, startTime, endTime) ==
    [companyCode |-> companyCode, requestTypes |-> requestTypes,
     isIntercompany |-> Len(requestTypes) = 2, isAutoApproved |-> endTime # NoDate,
     isSecondLevelApproval |-> FALSE, isErrorTransaction |-> startTime = NoDate,
     isWbsOwnerMissing |-> FALSE, isCostCenterOwnerMissing |-> FALSE,
     isFallbackTransaction |-> FALSE,
     transactionDate |-> transactionDate, startTime |-> startTime, endTime |-> endTime]

\* The Runs an analysis may return, without their uniqueKey.
RunPool ==
    {DashRun("2000", <<"ZNB">>, Instant(19783, 43201000),
             Instant(19783, 43200000), Instant(19783, 43201000)),
     DashRun("1000", <<"ZNB", "ABCD">>, Instant(19784, 3000),
             Instant(19783, 86399000), Instant(19784, 2000)),
     DashRun("US1", <<>>, Instant(19814, 1999),
             Instant(19814, 0), Instant(19814, 1999)),
     DashRun("US1", <<"ABCD">>, epoch, NoDate, NoDate),
     DashRun("1000", <<"ZNB">>, Instant(19783, 43200000),
             Instant(19783, 43200000), Instant(19783, 43199500)),
     DashRun("DE1", <<"ABCD">>, Instant(19782, 5), Instant(19782, 5), Instant(19782, 5))}

\* The Run that continues an analysis beyond its third Run.
LaterRuns ==
    {DashRun("1000", <<"ZNB", "ABCD">>, Instant(19784, 3000),
             Instant(19783, 86399000), Instant(19784, 2000))}

\* The Run sequences of up to n Runs: any three Runs of the pool, then later Runs.
RECURSIVE RunSeqs(_)
RunSeqs(n) ==
    IF n = 0 THEN {<<>>}
    ELSE LET shorter == RunSeqs(n - 1)
             longest == {rs \in shorter : Len(rs) = n - 1}
         IN  shorter \cup {Append(rs, r) : rs \in longest,
                                           r \in IF n <= 3 THEN RunPool ELSE LaterRuns}

\* The Runs of an analysis have distinct keys: one document per Run.
Keyed(runs) ==
    [i \in 1..Len(runs) |->
        [uniqueKey |-> "D" \o ToString(i) \o "--" \o runs[i].companyCode] @@ runs[i]]

Outcomes ==
    {[state |-> "fulfilled", result |-> [runs |-> Keyed(rs)]] : rs \in RunSeqs(MaxRuns)}
    \cup {[state |-> "fulfilled", result |-> [error |-> emptySheetError]],
          [state |-> "rejected"]}

Urls == {"", "https://docs.google.com/spreadsheets/d/1"}

BreakdownKeys(breakdown) == {breakdown[i].key : i \in 1..Len(breakdown)}

Init ==
    /\ IdleDash
    /\ IdleCsv
    /\ IdleTs
    /\ IdleParse

Next ==
    \/ \E url \in Urls : SetSheetUrl(url) /\ UNCHANGED <<csvVars, tsVars, parseVars>>
    \/ HandleUrlSubmit /\ UNCHANGED <<csvVars, tsVars, parseVars>>
    \/ \E outcome \in Outcomes : Settle(outcome) /\ UNCHANGED <<csvVars, tsVars, parseVars>>
    \/ HandleUrlSubmitResume /\ UNCHANGED <<csvVars, tsVars, parseVars>>
    \/ \E companyCode \in BreakdownKeys(companyCodeBreakdown) :
          HandleCompanyCodeSelect(companyCode) /\ UNCHANGED <<csvVars, tsVars, parseVars>>
    \/ \E type \in BreakdownKeys(requestTypeBreakdown) :
          HandleRequestTypeSelect(type) /\ UNCHANGED <<csvVars, tsVars, parseVars>>
    \/ HandleResetRequestType /\ UNCHANGED <<csvVars, tsVars, parseVars>>
    \/ HandleResetSelection /\ UNCHANGED <<csvVars, tsVars, parseVars>>

Spec == Init /\ [][Next]_vars

\* The (key, count) pairs of a breakdown, whatever their order.
Counts(breakdown) == {<<breakdown[i].key, breakdown[i].count>> : i \in 1..Len(breakdown)}

RunIndexes == 1..Len(allRuns)

CodesOfRuns == {allRuns[i].companyCode : i \in RunIndexes} \ {""}

TypesOfRuns == UNION {{allRuns[i].requestTypes[k] : k \in 1..Len(allRuns[i].requestTypes)} :
                        i \in RunIndexes}

PassesTypeFilter(i) ==
    selectedRequestType = null \/ SeqIncludes(allRuns[i].requestTypes, selectedRequestType)

PassesCodeFilter(i) ==
    selectedCompanyCodes = {} \/ allRuns[i].companyCode \in selectedCompanyCodes

\* The Runs of a company code among those that pass the request-type filter.
RunsOfCode(c) == {i \in RunIndexes : allRuns[i].companyCode = c /\ PassesTypeFilter(i)}

\* The Runs of a request type among those that pass the company-code filter.
RunsOfType(t) ==
    {i \in RunIndexes : SeqIncludes(allRuns[i].requestTypes, t) /\ PassesCodeFilter(i)}

CrossFilterCounts ==
    /\ Counts(companyCodeBreakdown) =
          {<<c, Cardinality(RunsOfCode(c))>> : c \in {x \in CodesOfRuns : RunsOfCode(x) # {}}}
    /\ Counts(requestTypeBreakdown) =
          {<<t, Cardinality(RunsOfType(t))>> : t \in {x \in TypesOfRuns : RunsOfType(x) # {}}}

OwnFilterIgnored ==
    /\ \A type \in TypesOfRuns \cup {null} :
          Counts(RequestTypeBreakdown(allRuns, selectedCompanyCodes, type))
            = Counts(requestTypeBreakdown)
    /\ \A codes \in SUBSET CodesOfRuns :
          Counts(CompanyCodeBreakdown(allRuns, codes, selectedRequestType))
            = Counts(companyCodeBreakdown)

\* C1: the request-type breakdown counts the Runs filtered only by the
\* company-code selection and is the same whatever request type is selected
\* or cleared; the company-code breakdown counts the Runs filtered only by
\* the request type and is the same whatever company codes are selected.
C1_CrossFilterIndependence == CrossFilterCounts /\ OwnFilterIgnored

\* Both filters are set, and each breakdown still lists what its own
\* filter would hide.
C1_Witness ==
    /\ selectedRequestType # null
    /\ selectedCompanyCodes # {}
    /\ BreakdownKeys(requestTypeBreakdown) \ {selectedRequestType} # {}
    /\ BreakdownKeys(companyCodeBreakdown) \ selectedCompanyCodes # {}
    /\ Len(finalFilteredRuns) < Len(allRuns)

\* The position of the first Run of a company code among the Runs counted.
FirstAppearance(c) ==
    LET counted == CompanyCodeRunsToConsider(allRuns, selectedCompanyCodes, selectedRequestType)
    IN  CHOOSE i \in 1..Len(counted) :
            /\ counted[i].companyCode = c
            /\ \A j \in 1..(i - 1) : counted[j].companyCode # c

\* C6: the company-code breakdown is sorted by descending count, and codes
\* with equal counts keep the order of their first appearance among the
\* Runs, for all company codes (codes made only of digits included).
C6_BreakdownOrder ==
    \A i, j \in 1..Len(companyCodeBreakdown) :
        i < j =>
            LET a == companyCodeBreakdown[i]
                b == companyCodeBreakdown[j]
            IN  \/ a.count > b.count
                \/ a.count = b.count /\ FirstAppearance(a.key) < FirstAppearance(b.key)

Discarded ==
    isLoading => allRuns = <<>> /\ selectedCompanyCodes = {} /\ selectedRequestType = null

\* The Runs the call in flight delivers: its own, or none on an error or
\* an exception.
Delivered ==
    IF pending # Unset /\ pending.state = "fulfilled" /\ "runs" \in DOMAIN pending.result
    THEN pending.result.runs
    ELSE <<>>

WholeAnalysesOnly ==
    /\ (isLoading /\ ~isLoading') => allRuns' = Delivered
    /\ allRuns' # allRuns => allRuns' = <<>> \/ (isLoading /\ allRuns' = Delivered)

\* C7: while an analysis is in flight the Run collection is empty and both
\* filters are cleared; when it ends the collection is exactly its Runs, or
\* still empty on an error or exception; the collection only ever changes
\* to empty or to the whole result of one analysis.
C7_NewAnalysisDiscards == []Discarded /\ [][WholeAnalysesOnly]_vars

\* An analysis started after an earlier one had ended has its Runs ready,
\* and the collection is empty.
C7_Witness ==
    /\ isLoading
    /\ toast # null
    /\ Delivered # <<>>
    /\ allRuns = <<>>

Abs(n) == IF n < 0 THEN -n ELSE n

\* C9: "N/A" without a Run that has both times, "0 sec" for a mean of zero,
\* otherwise whole seconds S and milliseconds M, 0 <= M <= 999, with
\* S*1000 + M the mean rounded to a millisecond, shown as "M ms" alone only
\* when the mean is under one second.
C9_AverageDuration ==
    LET valid == FilterSeq(finalFilteredRuns, HasBothTimes)
        n == Len(valid)
        total == SumDurations(valid)
        bound == Abs(total) \div (1000 * n) + 1
    IN  IF n = 0 THEN avgProcessingTime = "N/A"
        ELSE IF total = 0 THEN avgProcessingTime = "0 sec"
        ELSE \E S \in (-bound)..bound, M \in 0..999 :
                /\ 2 * Abs((S * 1000 + M) * n - total) <= n
                /\ \/ S > 0 /\ avgProcessingTime =
                                  ToString(S) \o " sec, " \o ToString(M) \o " ms"
                   \/ total < 1000 * n /\ avgProcessingTime = ToString(M) \o " ms"

-----------------------------------------------------------------------------
(* The filter operations                                                   *)

PoolCodes == {r.companyCode : r \in RunPool}

PoolTypes == UNION {ElementsOf(r.requestTypes) : r \in RunPool}

\* C14: toggling company code c flips only c's membership in the selected
\* set (a second toggle restores the set) and leaves the request type;
\* selecting request type t selects t, or clears the selection when t was
\* selected, and leaves the company codes; resetting the request type clears
\* only it; reset-all clears both. None of them changes the Run collection.
C14_FilterOperations ==
    [][/\ \A c \in PoolCodes :
            HandleCompanyCodeSelect(c) =>
                /\ (c \in selectedCompanyCodes') <=> (c \notin selectedCompanyCodes)
                /\ selectedCompanyCodes' \ {c} = selectedCompanyCodes \ {c}
                /\ ToggleCompanyCode(selectedCompanyCodes', c) = selectedCompanyCodes
                /\ selectedRequestType' = selectedRequestType
                /\ allRuns' = allRuns
       /\ \A t \in PoolTypes :
            HandleRequestTypeSelect(t) =>
                /\ selectedRequestType' = IF selectedRequestType = t THEN null ELSE t
                /\ selectedCompanyCodes' = selectedCompanyCodes
                /\ allRuns' = allRuns
       /\ HandleResetRequestType =>
                /\ selectedRequestType' = null
                /\ selectedCompanyCodes' = selectedCompanyCodes
                /\ allRuns' = allRuns
       /\ HandleResetSelection =>
                /\ selectedRequestType' = null
                /\ selectedCompanyCodes' = {}
                /\ allRuns' = allRuns]_vars

\* Two company codes and a request type are selected over a loaded analysis.
C14_Witness ==
    /\ allRuns # <<>>
    /\ Cardinality(selectedCompanyCodes) = 2
    /\ selectedRequestType # null

-----------------------------------------------------------------------------
(* Consistency of the aggregates                                           *)

RECURSIVE SumCounts(_)
SumCounts(breakdown) ==
    IF breakdown = <<>> THEN 0 ELSE Head(breakdown).count + SumCounts(Tail(breakdown))

\* The count a breakdown lists for a key, 0 when it does not list the key.
CountOf(breakdown, key) ==
    SumCounts(SelectSeq(breakdown, LAMBDA item : item.key = key))

RECURSIVE SumOver(_, _)
SumOver(breakdown, keys) ==
    IF keys = {} THEN 0
    ELSE LET key == CHOOSE k \in keys : TRUE
         IN  CountOf(breakdown, key) + SumOver(breakdown, keys \ {key})

\* C16: with company codes selected, the number of Runs of the effective
\* filtered set is the sum of the company-code breakdown's counts of the
\* selected codes; with a request type selected, it is that type's count in
\* the request-type breakdown (0 when not listed); and the counts of the
\* monthly series always sum to it.
C16_AggregatesAgree ==
    LET filtered == finalFilteredRuns
        total == Len(filtered)
    IN  /\ selectedCompanyCodes # {} =>
              total = SumOver(companyCodeBreakdown, selectedCompanyCodes)
        /\ selectedRequestType # null =>
              total = CountOf(requestTypeBreakdown, selectedRequestType)
        /\ SumCounts(MonthlyData(filtered)) = total

\* Both filters are set, a Run passes them, a Run does not, and the series
\* has the month of the epoch sentinel.
C16_Witness ==
    /\ selectedCompanyCodes # {}
    /\ selectedRequestType # null
    /\ Len(finalFilteredRuns) > 0
    /\ Len(finalFilteredRuns) < Len(allRuns)
    /\ \E i \in 1..Len(monthlyData) : monthlyData[i].key = "1970-01"

====
